---------------------------- MODULE Spec2Model ----------------------------
(***************************************************************************)
(* Model of the page scraper: functions.py (make_soup, get_numbers,        *)
(* remove_duplicates, find_logo, return_logo_url) and the driver           *)
(* extract.py.                                                             *)
(*                                                                         *)
(* A Python str is a sequence of one-character strings.  Three characters  *)
(* that have no printable form are written symbolically: NL is "\n", TAB   *)
(* is "\t" and NBSP is "\xa0".                                             *)
(***************************************************************************)
EXTENDS Integers, Sequences, FiniteSets, TLC

VARIABLES
    pc,               \* position of the program
    url,              \* the base page URL (sys.argv[1])
    net,              \* what urlopen does for url: "ok" or the exception it raises
    soup,             \* make_soup's result: "unset", "tree" or "empty" (the str "")
    soup_text,        \* the text of the page: soup.get_text()
    imgs,             \* the <img> elements of the page, in document order
    npieces,          \* number of pieces an input string was assembled from
    phone_numbers,    \* get_numbers: the accepted segments, before deduplication
    numbers_result,   \* get_numbers: the returned value
    logo,             \* the logo reference: find_logo's result, return_logo_url's argument
    logo_url,         \* return_logo_url: the returned string
    exc,              \* the exception that ended the program, "none" if none did
    stdout            \* the lines written to sys.stdout

vars == <<pc, url, net, soup, soup_text, imgs, npieces, phone_numbers,
          numbers_result, logo, logo_url, exc, stdout>>

-----------------------------------------------------------------------------
(* Characters and character classes *)

NL == "NL"
NBSP == "NBSP"
TAB == "TAB"

Digit == {"0", "1", "2", "3", "4", "5", "6", "7", "8", "9"}

\* Python's str whitespace (\s in a str pattern, str.strip(), str.isspace()),
\* restricted to the characters of the model.
Whitespace == {" ", NL, TAB, NBSP}

\* The class [-\s\.\0-9] of REGEX_NUMBER_WIDE.  "\0-9" is the range from
\* NUL to "9", so the class holds every character up to "9" (among them
\* "(", ")", "+", ",", "/") besides "-", "." and whitespace.
WideTailClass == Whitespace \cup Digit \cup {"-", ".", "(", ")", "+", ",", "/"}

\* The value None, and values that may be None.
None == [isNone |-> TRUE]
Some(v) == [isNone |-> FALSE, value |-> v]

-----------------------------------------------------------------------------
(* str helpers *)

RECURSIVE LStrip(_, _)
LStrip(s, C) ==
    IF s # <<>> /\ Head(s) \in C THEN LStrip(Tail(s), C) ELSE s

RECURSIVE RStrip(_, _)
RStrip(s, C) ==
    IF s # <<>> /\ s[Len(s)] \in C THEN RStrip(SubSeq(s, 1, Len(s) - 1), C) ELSE s

\* str.strip(chars)
Strip(s, C) == RStrip(LStrip(s, C), C)

\* str.replace(a, b) for single characters a and b
ReplaceChar(s, a, b) == [i \in 1..Len(s) |-> IF s[i] = a THEN b ELSE s[i]]

\* str.replace("  ", ""): left to right, non-overlapping
RECURSIVE RemoveDoubleSpace(_)
RemoveDoubleSpace(s) ==
    IF Len(s) < 2 THEN s
    ELSE IF s[1] = " " /\ s[2] = " " THEN RemoveDoubleSpace(SubSeq(s, 3, Len(s)))
    ELSE <<s[1]>> \o RemoveDoubleSpace(Tail(s))

\* str.split(sep) for a single character sep: a sequence of strings
RECURSIVE SplitOn(_, _)
SplitOn(s, sep) ==
    IF \E i \in 1..Len(s) : s[i] = sep
    THEN LET i == CHOOSE j \in 1..Len(s) :
                      s[j] = sep /\ \A k \in 1..(j - 1) : s[k] # sep
         IN  <<SubSeq(s, 1, i - 1)>> \o SplitOn(SubSeq(s, i + 1, Len(s)), sep)
    ELSE <<s>>

\* len(re.findall(r'\d', s))
CountDigits(s) == Cardinality({i \in 1..Len(s) : s[i] \in Digit})

\* re.sub(r'\D', '', s): the digit-only projection
DigitsOnly(s) == SelectSeq(s, LAMBDA c : c \in Digit)

\* re.sub(r'\s\s+', '', s): every maximal run of two or more whitespace
\* characters is deleted
CollapseWhitespace(s) ==
    LET InRun(i) == /\ s[i] \in Whitespace
                    /\ \/ (i > 1 /\ s[i - 1] \in Whitespace)
                       \/ (i < Len(s) /\ s[i + 1] \in Whitespace)
        RECURSIVE Keep(_)
        Keep(i) == IF i > Len(s) THEN <<>>
                   ELSE IF InRun(i) THEN Keep(i + 1)
                   ELSE <<s[i]>> \o Keep(i + 1)
    IN  Keep(1)

\* number of consecutive characters of class C in s from position i on
RECURSIVE Run(_, _, _)
Run(s, i, C) ==
    IF i <= Len(s) /\ s[i] \in C THEN 1 + Run(s, i + 1, C) ELSE 0

Max(S) == CHOOSE x \in S : \A y \in S : y <= x

-----------------------------------------------------------------------------
(* REGEX_NUMBER_WIDE and re.findall *)

\* In the operators below a position is an index into s, an "end" is the
\* index of the first character after the match, and 0 stands for "no match".

\* (?=[^0-9]) at position e: a character stands there and is no digit
Lookahead(s, e) == e <= Len(s) /\ s[e] \notin Digit

\* [-\s\.\0-9]*(?=[^0-9]) from position j: greedy, backtracking to shorter runs
TailEnd(s, j) ==
    LET ends == {e \in j..(j + Run(s, j, WideTailClass)) : Lookahead(s, e)}
    IN  IF ends = {} THEN 0 ELSE Max(ends)

\* [)]{0,1} then the tail: one ")" first, then none
CloseParenEnd(s, j) ==
    IF j <= Len(s) /\ s[j] = ")" /\ TailEnd(s, j + 1) # 0
    THEN TailEnd(s, j + 1)
    ELSE TailEnd(s, j)

\* [0-9]{1,4} then the rest: four digits first, down to one
DigitsEnd(s, j) ==
    LET n == Run(s, j, Digit)
        ok == {d \in 1..4 : d <= n /\ CloseParenEnd(s, j + d) # 0}
    IN  IF ok = {} THEN 0 ELSE CloseParenEnd(s, j + Max(ok))

\* [(]{0,1} then the rest
OpenParenEnd(s, j) ==
    IF j <= Len(s) /\ s[j] = "(" /\ DigitsEnd(s, j + 1) # 0
    THEN DigitsEnd(s, j + 1)
    ELSE DigitsEnd(s, j)

\* [+]* then the rest: all the "+" first, down to none
MatchEnd(s, i) ==
    LET n == Run(s, i, {"+"})
        ok == {k \in 0..n : OpenParenEnd(s, i + k) # 0}
    IN  IF ok = {} THEN 0 ELSE OpenParenEnd(s, i + Max(ok))

\* re.findall(REGEX_NUMBER_WIDE, s): leftmost, non-overlapping matches
RECURSIVE FindAllFrom(_, _)
FindAllFrom(s, i) ==
    IF i > Len(s) THEN <<>>
    ELSE LET e == MatchEnd(s, i)
         IN  IF e = 0 THEN FindAllFrom(s, i + 1)
             ELSE <<SubSeq(s, i, e - 1)>> \o FindAllFrom(s, e)

FindAll(s) == FindAllFrom(s, 1)

-----------------------------------------------------------------------------
(* get_numbers *)

MinDigits == 6
MaxDigits == 15

\* number.strip().replace("  ", "").replace("\xa0", "-")
CleanedNum(number) ==
    ReplaceChar(RemoveDoubleSpace(Strip(number, Whitespace)), NBSP, "-")

\* re.match(r'\b\d{4}-\d{2}-\d{2}\b', s).  Of the characters a match of
\* REGEX_NUMBER_WIDE can hold only the digits are word characters.
IsDateShaped(s) ==
    /\ Len(s) >= 10
    /\ \A i \in {1, 2, 3, 4, 6, 7, 9, 10} : s[i] \in Digit
    /\ s[5] = "-" /\ s[8] = "-"
    /\ (Len(s) = 10 \/ s[11] \notin Digit)

\* a digit-count check that lost its upper bound
DigitCountNoUpper(part) == MinDigits <= CountDigits(part)

\* 6 <= len(re.findall(r'\d', part)) <= 15
DigitCountOk(part) == MinDigits <= CountDigits(part) /\ CountDigits(part) <= MaxDigits

\* part.strip('.,').rstrip('( ')
StripPart(part) == RStrip(Strip(part, {".", ","}), {"(", " "})

\* a separator replacement that forgets the hyphen
ReplaceSlashOnly(part) == ReplaceChar(part, "/", " ")

\* part.replace("-", " ").replace("/", " ")
ReplaceSeparators(part) == ReplaceChar(ReplaceChar(part, "-", " "), "/", " ")

\* strip, separator replacement and whitespace collapse of one part
Normalize(part) == CollapseWhitespace(ReplaceSeparators(StripPart(part)))

\* re.search(r'[^0-9+\s\(\)-]', part)
HasForeignChar(part) ==
    \E i \in 1..Len(part) :
        part[i] \notin (Digit \cup Whitespace \cup {"+", "(", ")", "-"})

\* re.search(r'\D', part)
HasNonDigit(part) == \E i \in 1..Len(part) : part[i] \notin Digit

\* re.match(r'^\d{5,}', part)
StartsWithFiveDigits(part) == Run(part, 1, Digit) >= 5

\* re.match(r'^[1-9]\d{2,3}', part)
StartsLikeYear(part) ==
    /\ Len(part) >= 1 /\ part[1] \in (Digit \ {"0"})
    /\ Run(part, 2, Digit) >= 2

\* the filters applied to a normalized part
Accepts(part) ==
    /\ ~HasForeignChar(part)
    /\ HasNonDigit(part)
    /\ ~StartsWithFiveDigits(part)
    /\ ~StartsLikeYear(part)

\* the inner loop over the parts of one candidate
RECURSIVE ProcessParts(_)
ProcessParts(parts) ==
    IF parts = <<>> THEN <<>>
    ELSE LET part == Head(parts)
             rest == ProcessParts(Tail(parts))
         IN  IF ~DigitCountOk(part) THEN rest
             ELSE IF Accepts(Normalize(part)) THEN <<Normalize(part)>> \o rest
             ELSE rest

\* one iteration of the outer loop: the segments one candidate contributes
ProcessNumber(number) ==
    LET cleaned_num == CleanedNum(number)
    IN  IF IsDateShaped(cleaned_num) THEN <<>>
        ELSE ProcessParts(SplitOn(cleaned_num, NL))

\* the outer loop
RECURSIVE ProcessAll(_)
ProcessAll(potential_numbers) ==
    IF potential_numbers = <<>> THEN <<>>
    ELSE ProcessNumber(Head(potential_numbers)) \o ProcessAll(Tail(potential_numbers))

\* phone_numbers as it stands before "Remove duplicates"
AcceptedSegments(text) == ProcessAll(FindAll(text))

\* remove_duplicates: the loop over input_list with the set seen
RECURSIVE RemoveDuplicatesFrom(_, _)
RemoveDuplicatesFrom(input_list, seen) ==
    IF input_list = <<>> THEN <<>>
    ELSE LET item == Head(input_list)
             cleaned_item == DigitsOnly(item)
         IN  IF cleaned_item \notin seen
             THEN <<item>> \o RemoveDuplicatesFrom(Tail(input_list), seen \cup {cleaned_item})
             ELSE RemoveDuplicatesFrom(Tail(input_list), seen)

\* a deduplication on the strings themselves, as set() would do
RECURSIVE RemoveExactFrom(_, _)
RemoveExactFrom(input_list, seen) ==
    IF input_list = <<>> THEN <<>>
    ELSE LET item == Head(input_list)
         IN  IF item \notin seen
             THEN <<item>> \o RemoveExactFrom(Tail(input_list), seen \cup {item})
             ELSE RemoveExactFrom(Tail(input_list), seen)

RemoveExactDuplicates(input_list) == RemoveExactFrom(input_list, {})

\* a deduplication that keeps the last segment of each projection
RECURSIVE RemoveKeepingLast(_)
RemoveKeepingLast(input_list) ==
    IF input_list = <<>> THEN <<>>
    ELSE LET item == Head(input_list)
             later == Tail(input_list)
         IN  IF \E i \in 1..Len(later) : DigitsOnly(later[i]) = DigitsOnly(item)
             THEN RemoveKeepingLast(later)
             ELSE <<item>> \o RemoveKeepingLast(later)

remove_duplicates(input_list) == RemoveDuplicatesFrom(input_list, {})

\* return unique_phone_numbers if unique_phone_numbers else None
get_numbers(text) ==
    LET unique_phone_numbers == remove_duplicates(AcceptedSegments(text))
    IN  IF unique_phone_numbers # <<>> THEN Some(unique_phone_numbers) ELSE None

-----------------------------------------------------------------------------
(* Inputs of get_numbers: page texts assembled from pieces *)

MaxPieces == 3

Year == <<"1", "9", "9", "9">>
Filler == <<" ", "w", "a", "s", " ", "a", " ", "y", "e", "a", "r", ",", " ",
            "c", "a", "l", "l", " ">>
TollFree == <<"0", "8", "0", "0", " ", "1", "2", "3", " ", "4", "5", "6">>
TollFreeAlt == <<"(", "0", "8", "0", "0", ")", " ", "1", "2", "3", "-", "4", "5", "6", ";">>
Local == <<"+", "3", "8", "5", "/", "1", " ", "2", "3", "4", "5", " ", "6", "7", "8", ";">>
Dotted == <<"0", "6", ".", "1", "2", ",", "3", "4", "5", ";">>
IsoDate == <<"2", "0", "2", "4", "-", "0", "5", "-", "0", "1">>
BareId == <<"1", "2", "3", "4", "5", "6", "7", "8", "9">>

Pieces ==
    {Year, Filler, TollFree, TollFreeAlt, Local, Dotted, IsoDate, BareId,
     <<"(">>, <<")">>, <<".">>, <<NL>>, <<NBSP>>, <<TAB>>, <<" ", " ">>}

\* "1999 was a year, call 0800 123 456"
YearThenTollFree == Year \o Filler \o TollFree

-----------------------------------------------------------------------------
(* Specification of get_numbers over the assembled texts *)

InitNumbers ==
    /\ pc = "input"
    /\ url = <<>>
    /\ net = "ok"
    /\ soup = "tree"
    /\ soup_text = <<>>
    /\ imgs = <<>>
    /\ npieces = 0
    /\ phone_numbers = <<>>
    /\ numbers_result = None
    /\ logo = None
    /\ logo_url = None
    /\ exc = "none"
    /\ stdout = <<>>

\* the page text grows by one piece
AppendPiece ==
    /\ pc = "input"
    /\ npieces < MaxPieces
    /\ \E p \in Pieces : soup_text' = soup_text \o p
    /\ npieces' = npieces + 1
    /\ UNCHANGED <<pc, url, net, soup, imgs, phone_numbers, numbers_result, logo,
                   logo_url, exc, stdout>>

\* get_numbers(soup), with soup.get_text() = soup_text
CallGetNumbers ==
    /\ pc = "input"
    /\ phone_numbers' = AcceptedSegments(soup_text)
    /\ numbers_result' = get_numbers(soup_text)
    /\ pc' = "done"
    /\ UNCHANGED <<url, net, soup, soup_text, imgs, npieces, logo, logo_url, exc,
                   stdout>>

NextNumbers == AppendPiece \/ CallGetNumbers

SpecNumbers == InitNumbers /\ [][NextNumbers]_vars

-----------------------------------------------------------------------------
(* Properties of get_numbers *)

\* the returned list, with None read as the empty list
Output == IF numbers_result.isNone THEN <<>> ELSE numbers_result.value

Chars(s) == {s[i] : i \in 1..Len(s)}

Entries(list) == {list[i] : i \in 1..Len(list)}

StartsWith(s, prefix) ==
    Len(s) >= Len(prefix) /\ SubSeq(s, 1, Len(prefix)) = prefix

\* C1: no two entries of the list get_numbers returns have the same
\* digit-only projection.
C1_DedupInvariant ==
    pc = "done" =>
        \A i, j \in 1..Len(Output) :
            i # j => DigitsOnly(Output[i]) # DigitsOnly(Output[j])

\* two accepted segments that differ as strings and agree on their digits
C1_Witness ==
    /\ pc = "done"
    /\ Output # <<>>
    /\ \E i, j \in 1..Len(phone_numbers) :
          /\ phone_numbers[i] # phone_numbers[j]
          /\ DigitsOnly(phone_numbers[i]) = DigitsOnly(phone_numbers[j])

\* every part of every cleaned candidate of the text, as the inner loop sees it
CandidateParts(text) ==
    LET cands == FindAll(text)
    IN  UNION {Entries(SplitOn(CleanedNum(cands[i]), NL)) : i \in 1..Len(cands)}

\* C2: every returned string has between 6 and 15 digits; the strip, the
\* separator replacement and the whitespace collapse, which run after the
\* digit count, leave the number of digits of a part unchanged.
C2_DigitCount ==
    pc = "done" =>
        /\ \A i \in 1..Len(Output) :
              6 <= CountDigits(Output[i]) /\ CountDigits(Output[i]) <= 15
        /\ \A part \in CandidateParts(soup_text) :
              CountDigits(Normalize(part)) = CountDigits(part)

\* a candidate with more than 15 digits was dropped and another was returned
C2_Witness ==
    /\ pc = "done"
    /\ Output # <<>>
    /\ \E part \in CandidateParts(soup_text) : CountDigits(part) > 15
    /\ \E part \in CandidateParts(soup_text) :
          Normalize(part) # part /\ Normalize(part) \in Entries(Output)

\* the indices of the accepted segments that are the first of their projection
FirstOfProjection(list) ==
    {i \in 1..Len(list) :
        \A j \in 1..(i - 1) : DigitsOnly(list[j]) # DigitsOnly(list[i])}

\* the k-th smallest element of a set of integers
Nth(S, k) == CHOOSE i \in S : Cardinality({j \in S : j <= i}) = k

\* C3: the returned list is the accepted-segment list, in discovery order,
\* reduced to the first segment of each digit-only projection.
C3_FirstAppearanceOrder ==
    pc = "done" =>
        LET keep == FirstOfProjection(phone_numbers)
        IN  /\ Len(Output) = Cardinality(keep)
            /\ \A k \in 1..Len(Output) : Output[k] = phone_numbers[Nth(keep, k)]

\* two different numbers were kept and a later repetition was dropped
C3_Witness ==
    /\ pc = "done"
    /\ Len(Output) >= 2
    /\ Len(phone_numbers) > Len(Output)

\* the only characters between two numerics of the text that keep them in
\* different candidates are those outside the wide class
NumericChar == Digit \cup {"-"}

NumericRunStarts(s) ==
    {i \in 1..Len(s) : s[i] \in NumericChar /\ (i = 1 \/ s[i - 1] \notin NumericChar)}

ExactDate(r) ==
    /\ Len(r) = 10
    /\ \A i \in {1, 2, 3, 4, 6, 7, 9, 10} : r[i] \in Digit
    /\ r[5] = "-" /\ r[8] = "-"

\* every numeric of the text is DDDD-DD-DD or a bare run of digits, and no
\* two numerics are joined by spaces or punctuation into one number
OnlyDateOrIdNumerics(s) ==
    LET starts == NumericRunStarts(s)
        RunAt(i) == SubSeq(s, i, i + Run(s, i, NumericChar) - 1)
    IN  /\ \A i \in starts : ExactDate(RunAt(i)) \/ Chars(RunAt(i)) \subseteq Digit
        /\ \A i, j \in starts :
              i < j => \E k \in (i + 1)..(j - 1) : s[k] \notin WideTailClass

\* C8: for a text whose only numerics are date-shaped or bare digit runs,
\* get_numbers returns None.
C8_DatesAndIdsGiveNone ==
    (pc = "done" /\ OnlyDateOrIdNumerics(soup_text)) => numbers_result = None

\* C9: for "1999 was a year, call 0800 123 456" the returned list has no
\* entry for the year and holds the number 0800 123 456.
C9_YearDroppedTollFreeKept ==
    (pc = "done" /\ soup_text = YearThenTollFree) =>
        /\ TollFree \in Entries(Output)
        /\ \A i \in 1..Len(Output) : ~StartsWith(Output[i], Year)

\* C10: every returned string holds only digits, "+", whitespace, "(" and
\* ")", holds at least one non-digit, and has no two adjacent whitespace
\* characters.
C10_OutputAlphabet ==
    pc = "done" =>
        \A i \in 1..Len(Output) :
            LET s == Output[i]
            IN  /\ Chars(s) \subseteq (Digit \cup Whitespace \cup {"+", "(", ")"})
                /\ Chars(s) \cap {"-", "/", ".", ","} = {}
                /\ \E k \in 1..Len(s) : s[k] \notin Digit
                /\ \A k \in 1..(Len(s) - 1) :
                      ~(s[k] \in Whitespace /\ s[k + 1] \in Whitespace)

\* hyphens, a slash and a non-breaking space of the text became spaces of
\* returned strings
C10_Witness ==
    /\ pc = "done"
    /\ soup_text = Local \o <<NBSP>> \o TollFreeAlt
    /\ Output = <<ReplaceChar(SubSeq(Local, 1, Len(Local) - 1), "/", " "),
                  ReplaceChar(SubSeq(TollFreeAlt, 1, Len(TollFreeAlt) - 1), "-", " ")>>

-----------------------------------------------------------------------------
(* find_logo *)

UpperCase == <<"A", "B", "C", "D", "E", "F", "G", "H", "I", "J", "K", "L", "M",
               "N", "O", "P", "Q", "R", "S", "T", "U", "V", "W", "X", "Y", "Z">>
LowerCase == <<"a", "b", "c", "d", "e", "f", "g", "h", "i", "j", "k", "l", "m",
               "n", "o", "p", "q", "r", "s", "t", "u", "v", "w", "x", "y", "z">>

ToLower(c) ==
    IF \E i \in 1..Len(UpperCase) : UpperCase[i] = c
    THEN LowerCase[CHOOSE i \in 1..Len(UpperCase) : UpperCase[i] = c]
    ELSE c

\* str.lower()
LowerStr(s) == [i \in 1..Len(s) |-> ToLower(s[i])]

EndsWith(s, suffix) ==
    Len(s) >= Len(suffix) /\ SubSeq(s, Len(s) - Len(suffix) + 1, Len(s)) = suffix

\* re.compile(alias, re.I).search(value): the alias occurs in the value,
\* letter case ignored (the aliases are lower-case words)
ContainsAlias(value, alias) ==
    \E i \in 1..(Len(value) - Len(alias) + 1) :
        SubSeq(LowerStr(value), i, i + Len(alias) - 1) = alias

PhotoExtensions == {<<".", "j", "p", "g">>, <<".", "p", "n", "g">>, <<".", "s", "v", "g">>}

\* is_photo_pattern.search(src), the pattern being r'\.(jpg|png|svg)$' with
\* re.I: "$" matches at the end of the string and before a newline that ends it
IsPhoto(src) ==
    \/ \E ext \in PhotoExtensions : EndsWith(LowerStr(src), ext)
    \/ /\ src # <<>> /\ src[Len(src)] = NL
       /\ \E ext \in PhotoExtensions :
             EndsWith(LowerStr(SubSeq(src, 1, Len(src) - 1)), ext)

hiding_place == <<"class", "src", "id", "alt">>
alliases == << <<"l", "o", "g", "o">>, <<"b", "r", "a", "n", "d">>,
               <<"s", "i", "t", "e">>, <<"c", "o", "m", "p", "a", "n", "y">>,
               <<"n", "a", "m", "e">> >>

\* whether an element carries attribute place with a value the alias occurs in
ImgMatches(el, place, alias) ==
    place \in DOMAIN el /\ ContainsAlias(el[place], alias)

\* a search that takes the last matching element instead of the first
FindLastImg(doc, place, alias) ==
    LET hits == {i \in 1..Len(doc) : ImgMatches(doc[i], place, alias)}
    IN  IF hits = {} THEN 0 ELSE Max(hits)

\* soup.find("img", {place: re.compile(alias, re.I)}): the index of the
\* first matching element in document order, 0 for None
RECURSIVE FindImgFrom(_, _, _, _)
FindImgFrom(doc, i, place, alias) ==
    IF i > Len(doc) THEN 0
    ELSE IF ImgMatches(doc[i], place, alias) THEN i
    ELSE FindImgFrom(doc, i + 1, place, alias)

FindImg(doc, place, alias) == FindImgFrom(doc, 1, place, alias)

\* the two nested loops, from the pair (hiding_place[p], alliases[a]) on
RECURSIVE FindLogoFrom(_, _, _)
FindLogoFrom(doc, p, a) ==
    IF p > Len(hiding_place) THEN None
    ELSE IF a > Len(alliases) THEN FindLogoFrom(doc, p + 1, 1)
    ELSE LET found == FindImg(doc, hiding_place[p], alliases[a])
         IN  IF found # 0 /\ "src" \in DOMAIN doc[found] /\ IsPhoto(doc[found].src)
             THEN Some(doc[found].src)
             ELSE FindLogoFrom(doc, p, a + 1)

find_logo(doc) == FindLogoFrom(doc, 1, 1)

-----------------------------------------------------------------------------
(* Inputs of find_logo: documents of up to MaxImgs <img> elements *)

MaxImgs == 3

\* <img class="site-logo" src="/img/logo.png">
SiteLogoImg ==
    [class |-> <<"s", "i", "t", "e", "-", "l", "o", "g", "o">>,
     src |-> <<"/", "i", "m", "g", "/", "l", "o", "g", "o", ".", "p", "n", "g">>]
\* <img class="main-logo" src="/pix/2.png">
MainLogoImg ==
    [class |-> <<"m", "a", "i", "n", "-", "l", "o", "g", "o">>,
     src |-> <<"/", "p", "i", "x", "/", "2", ".", "p", "n", "g">>]
\* <img class="navbar-brand">
BrandNoSrcImg ==
    [class |-> <<"n", "a", "v", "b", "a", "r", "-", "b", "r", "a", "n", "d">>]
\* <img id="logo" src="banner.gif">
LogoGifImg ==
    [id |-> <<"l", "o", "g", "o">>,
     src |-> <<"b", "a", "n", "n", "e", "r", ".", "g", "i", "f">>]
\* <img id="LOGO" src="/l.svg">
UpperLogoImg ==
    [id |-> <<"L", "O", "G", "O">>, src |-> <<"/", "l", ".", "s", "v", "g">>]
\* <img alt="Company Name" src="/a/shop.JPG">
CompanyAltImg ==
    [alt |-> <<"C", "o", "m", "p", "a", "n", "y", " ", "N", "a", "m", "e">>,
     src |-> <<"/", "a", "/", "s", "h", "o", "p", ".", "J", "P", "G">>]
\* <img src="/img/brand.svg\n">: the attribute value ends with a newline
BrandSvgNlImg ==
    [src |-> <<"/", "i", "m", "g", "/", "b", "r", "a", "n", "d", ".", "s", "v", "g", NL>>]
\* <img class="hero" src="/hero.png">
HeroImg ==
    [class |-> <<"h", "e", "r", "o">>,
     src |-> <<"/", "h", "e", "r", "o", ".", "p", "n", "g">>]

ImgElements ==
    {SiteLogoImg, MainLogoImg, BrandNoSrcImg, LogoGifImg, UpperLogoImg,
     CompanyAltImg, BrandSvgNlImg, HeroImg}

InitLogo ==
    /\ pc = "input"
    /\ url = <<>>
    /\ net = "ok"
    /\ soup = "tree"
    /\ soup_text = <<>>
    /\ imgs = <<>>
    /\ npieces = 0
    /\ phone_numbers = <<>>
    /\ numbers_result = None
    /\ logo = None
    /\ logo_url = None
    /\ exc = "none"
    /\ stdout = <<>>

\* the document grows by one <img> element
AppendImg ==
    /\ pc = "input"
    /\ Len(imgs) < MaxImgs
    /\ \E el \in ImgElements : imgs' = Append(imgs, el)
    /\ UNCHANGED <<pc, url, net, soup, soup_text, npieces, phone_numbers,
                   numbers_result, logo, logo_url, exc, stdout>>

\* find_logo(soup)
CallFindLogo ==
    /\ pc = "input"
    /\ logo' = find_logo(imgs)
    /\ pc' = "done"
    /\ UNCHANGED <<url, net, soup, soup_text, imgs, npieces, phone_numbers,
                   numbers_result, logo_url, exc, stdout>>

NextLogo == AppendImg \/ CallFindLogo

SpecLogo == InitLogo /\ [][NextLogo]_vars

-----------------------------------------------------------------------------
(* Properties of find_logo *)

\* the k-th of the 20 (attribute, alias) pairs in nested order
PairPlace(k) == hiding_place[((k - 1) \div 5) + 1]
PairAlias(k) == alliases[((k - 1) % 5) + 1]

\* the first element in document order whose attribute holds the alias, 0 if none
FirstMatching(doc, k) ==
    LET hits == {i \in 1..Len(doc) :
                    /\ PairPlace(k) \in DOMAIN doc[i]
                    /\ ContainsAlias(doc[i][PairPlace(k)], PairAlias(k))}
    IN  IF hits = {} THEN 0 ELSE CHOOSE i \in hits : \A j \in hits : i <= j

\* the src ends in .jpg, .png or .svg, letter case ignored
SrcEndsInExtension(el) ==
    "src" \in DOMAIN el /\
    \E ext \in PhotoExtensions : EndsWith(LowerStr(el.src), ext)

\* the same, a single newline after the extension allowed
SrcEndsInExtensionOrNewline(el) ==
    "src" \in DOMAIN el /\
    \/ \E ext \in PhotoExtensions : EndsWith(LowerStr(el.src), ext)
    \/ \E ext \in PhotoExtensions : EndsWith(LowerStr(el.src), ext \o <<NL>>)

\* the pairs whose first matching element qualifies
QualifyingPairs(doc, Qualifies(_)) ==
    {k \in 1..20 : FirstMatching(doc, k) # 0 /\ Qualifies(doc[FirstMatching(doc, k)])}

\* the result is the src of the first matching element of the earliest
\* qualifying pair, and None exactly when no pair qualifies
EarliestQualifyingPair(doc, result, Qualifies(_)) ==
    LET good == QualifyingPairs(doc, Qualifies)
    IN  IF good = {} THEN result = None
        ELSE LET k == CHOOSE x \in good : \A y \in good : x <= y
             IN  result = Some(doc[FirstMatching(doc, k)].src)

\* C4 as claimed: over the 20 pairs in nested order, looking at each pair's
\* first matching element only, find_logo returns the src of the earliest
\* pair whose element has a src ending in .jpg, .png or .svg, and None when
\* there is none.
C4_FirstMatchStrictExtension ==
    pc = "done" => EarliestQualifyingPair(imgs, logo, SrcEndsInExtension)

\* C4 as amended: the same with a src that ends in the extension or in the
\* extension followed by one newline.
C4_FirstMatchPolicy ==
    pc = "done" => EarliestQualifyingPair(imgs, logo, SrcEndsInExtensionOrNewline)

\* a pair whose first matching element has a non-image src was passed over
\* although a later element matching the same pair qualifies, and a later
\* pair gave the result
C4_Witness ==
    /\ pc = "done"
    /\ imgs = <<LogoGifImg, UpperLogoImg, CompanyAltImg>>
    /\ logo = Some(CompanyAltImg.src)

-----------------------------------------------------------------------------
(* urlparse and return_logo_url *)

\* urllib.parse's _WHATWG_C0_CONTROL_OR_SPACE and _UNSAFE_URL_BYTES_TO_REMOVE,
\* restricted to the characters of the model
C0ControlOrSpace == {" ", NL, TAB}
UnsafeUrlChars == {NL, TAB}

\* urllib.parse.scheme_chars
SchemeChars ==
    {LowerCase[i] : i \in 1..Len(LowerCase)} \cup
    {UpperCase[i] : i \in 1..Len(UpperCase)} \cup Digit \cup {"+", "-", "."}

AsciiLetters ==
    {LowerCase[i] : i \in 1..Len(LowerCase)} \cup
    {UpperCase[i] : i \in 1..Len(UpperCase)}

\* the index of the first character of s in C at or after start, 0 if none
FirstIndexIn(s, C, start) ==
    LET hits == {i \in start..Len(s) : s[i] \in C}
    IN  IF hits = {} THEN 0 ELSE CHOOSE i \in hits : \A j \in hits : i <= j

\* urlparse(u), of which the code reads .scheme and .netloc: leading blanks
\* and control characters stripped, tabs and newlines removed, a leading
\* scheme (lower-cased) split off at the first ":", and after "//" the
\* network location up to the next "/", "?" or "#"
urlparse(u) ==
    LET cleaned == SelectSeq(LStrip(u, C0ControlOrSpace),
                             LAMBDA c : c \notin UnsafeUrlChars)
        colon == FirstIndexIn(cleaned, {":"}, 1)
        hasScheme == /\ colon > 1
                     /\ cleaned[1] \in AsciiLetters
                     /\ \A i \in 1..(colon - 1) : cleaned[i] \in SchemeChars
        rest == IF hasScheme THEN SubSeq(cleaned, colon + 1, Len(cleaned)) ELSE cleaned
        hasNetloc == Len(rest) >= 2 /\ rest[1] = "/" /\ rest[2] = "/"
        delim == IF FirstIndexIn(rest, {"/", "?", "#"}, 3) = 0 THEN Len(rest) + 1
                 ELSE FirstIndexIn(rest, {"/", "?", "#"}, 3)
    IN  [scheme |-> IF hasScheme THEN LowerStr(SubSeq(cleaned, 1, colon - 1)) ELSE <<>>,
         netloc |-> IF hasNetloc THEN SubSeq(rest, 3, delim - 1) ELSE <<>>]

\* f"{parsed_url.scheme}://{parsed_url.netloc}"
BaseUrl(base) == urlparse(base).scheme \o <<":", "/", "/">> \o urlparse(base).netloc

\* a resolver that puts a "/" between base and logo without looking at the base
ReturnLogoUrlSlashUnlessLogoHasOne(logo_ref, base) ==
    IF urlparse(logo_ref).netloc # <<>> THEN logo_ref
    ELSE IF ~StartsWith(logo_ref, <<"/">>)
         THEN BaseUrl(base) \o <<"/">> \o logo_ref
         ELSE BaseUrl(base) \o logo_ref

\* return_logo_url(logo, url)
return_logo_url(logo_ref, base) ==
    IF urlparse(logo_ref).netloc # <<>> THEN logo_ref
    ELSE LET base_url == BaseUrl(base)
         IN  IF ~EndsWith(base_url, <<"/">>) /\ ~StartsWith(logo_ref, <<"/">>)
             THEN base_url \o <<"/">> \o logo_ref
             ELSE base_url \o logo_ref

-----------------------------------------------------------------------------
(* Inputs of return_logo_url: base URLs, and logo references assembled from
   pieces *)

MaxLogoPieces == 3

\* "https://example.com/page"
PageUrl == <<"h", "t", "t", "p", "s", ":", "/", "/", "e", "x", "a", "m", "p", "l", "e",
             ".", "c", "o", "m", "/", "p", "a", "g", "e">>
\* "HTTPS://Example.com"
UpperCaseUrl == <<"H", "T", "T", "P", "S", ":", "/", "/", "E", "x", "a", "m", "p", "l",
                  "e", ".", "c", "o", "m">>
\* "example.com/page": no scheme, no network location
BareHostUrl == <<"e", "x", "a", "m", "p", "l", "e", ".", "c", "o", "m", "/", "p", "a",
                 "g", "e">>
\* "file:///page": a scheme and an empty network location
FileUrl == <<"f", "i", "l", "e", ":", "/", "/", "/", "p", "a", "g", "e">>

BaseUrls == {PageUrl, UpperCaseUrl, BareHostUrl, FileUrl}

HttpsColon == <<"h", "t", "t", "p", "s", ":">>
SlashSlashCdn == <<"/", "/", "c", "d", "n", ".", "e", "x", "a", "m", "p", "l", "e", ".",
                   "c", "o", "m">>
ImgDir == <<"i", "m", "g", "/">>
LogoPng == <<"l", "o", "g", "o", ".", "p", "n", "g">>

LogoPieces == {<<"/">>, HttpsColon, SlashSlashCdn, ImgDir, LogoPng}

InitUrl ==
    /\ pc = "input"
    /\ url \in BaseUrls
    /\ net = "ok"
    /\ soup = "tree"
    /\ soup_text = <<>>
    /\ imgs = <<>>
    /\ npieces = 0
    /\ phone_numbers = <<>>
    /\ numbers_result = None
    /\ logo = Some(<<>>)
    /\ logo_url = None
    /\ exc = "none"
    /\ stdout = <<>>

\* the logo reference grows by one piece
AppendLogoPiece ==
    /\ pc = "input"
    /\ npieces < MaxLogoPieces
    /\ \E piece \in LogoPieces : logo' = Some(logo.value \o piece)
    /\ npieces' = npieces + 1
    /\ UNCHANGED <<pc, url, net, soup, soup_text, imgs, phone_numbers,
                   numbers_result, logo_url, exc, stdout>>

\* return_logo_url(logo, url); extract.py calls it only "if logo", that is
\* with a logo reference that is not empty
CallReturnLogoUrl ==
    /\ pc = "input"
    /\ logo.value # <<>>
    /\ logo_url' = Some(return_logo_url(logo.value, url))
    /\ pc' = "done"
    /\ UNCHANGED <<url, net, soup, soup_text, imgs, npieces, phone_numbers,
                   numbers_result, logo, exc, stdout>>

NextUrl == AppendLogoPiece \/ CallReturnLogoUrl

SpecUrl == InitUrl /\ [][NextUrl]_vars

-----------------------------------------------------------------------------
(* Properties of return_logo_url *)

\* C5: return_logo_url returns a fully-qualified URL, one that has both a
\* scheme and a network location, for every logo reference and base URL.
C5_FullyQualified ==
    pc = "done" =>
        /\ urlparse(logo_url.value).scheme # <<>>
        /\ urlparse(logo_url.value).netloc # <<>>

\* scheme://netloc of the base URL
SchemeAndNetloc(base) ==
    urlparse(base).scheme \o <<":", "/", "/">> \o urlparse(base).netloc

\* C6 as claimed: a logo reference with a network location is returned
\* unchanged; otherwise the result is scheme://netloc of the base URL, then
\* one "/" exactly when the logo reference does not start with "/", then
\* the logo reference.
C6_OneSlashUnlessLogoHasOne ==
    pc = "done" =>
        IF urlparse(logo.value).netloc # <<>>
        THEN logo_url.value = logo.value
        ELSE logo_url.value =
                SchemeAndNetloc(url)
                \o (IF StartsWith(logo.value, <<"/">>) THEN <<>> ELSE <<"/">>)
                \o logo.value

\* C6 as amended: the "/" is inserted exactly when the logo reference does
\* not start with "/" and the base URL has a non-empty network location.
C6_ResolvedUrl ==
    pc = "done" =>
        IF urlparse(logo.value).netloc # <<>>
        THEN logo_url.value = logo.value
        ELSE logo_url.value =
                SchemeAndNetloc(url)
                \o (IF ~StartsWith(logo.value, <<"/">>) /\ urlparse(url).netloc # <<>>
                    THEN <<"/">> ELSE <<>>)
                \o logo.value

\* "/img/logo.png" resolved against "https://example.com/page"
C6_Witness ==
    /\ pc = "done"
    /\ url = PageUrl
    /\ logo = Some(<<"/">> \o ImgDir \o LogoPng)
    /\ logo_url = Some(<<"h", "t", "t", "p", "s", ":", "/", "/", "e", "x", "a", "m", "p",
                         "l", "e", ".", "c", "o", "m", "/", "i", "m", "g", "/", "l", "o",
                         "g", "o", ".", "p", "n", "g">>)

-----------------------------------------------------------------------------
(* make_soup and the driver extract.py *)

\* what urlopen(req).read() raises when the fetch fails
UrlopenRaises == {"urllib.error.URLError", "urllib.error.HTTPError", "TimeoutError"}

\* the classes "except requests.exceptions.RequestException" catches
RequestExceptions ==
    {"requests.exceptions.RequestException", "requests.exceptions.ConnectionError",
     "requests.exceptions.Timeout"}

\* whether the except clause of make_soup catches exception e
Catches(e) == e \in RequestExceptions

\* the pages the driver is run on
DriverTexts == {<<>>, YearThenTollFree, TollFree \o Filler \o TollFreeAlt,
                IsoDate \o Filler \o BareId, Local \o <<NL>> \o TollFreeAlt}
DriverDocs == {<<>>, <<SiteLogoImg>>, <<LogoGifImg, UpperLogoImg>>,
               <<BrandNoSrcImg, CompanyAltImg>>, <<HeroImg, BrandSvgNlImg>>}
DriverUrls == {PageUrl, UpperCaseUrl}

NoneLine == <<"N", "o", "n", "e">>

InitDriver ==
    /\ pc = "start"
    /\ url \in DriverUrls
    /\ net \in {"ok"} \cup UrlopenRaises
    /\ soup = "unset"
    /\ soup_text \in DriverTexts
    /\ imgs \in DriverDocs
    /\ npieces = 0
    /\ phone_numbers = <<>>
    /\ numbers_result = None
    /\ logo = None
    /\ logo_url = None
    /\ exc = "none"
    /\ stdout = <<>>

\* soup = functions.make_soup(url): the parsed page, "" when the except
\* clause catches what the fetch raised, and otherwise the exception leaves
\* make_soup and ends the program
MakeSoup ==
    /\ pc = "start"
    /\ IF net = "ok"
       THEN soup' = "tree" /\ pc' = "fetched" /\ exc' = exc
       ELSE IF Catches(net)
            THEN soup' = "empty" /\ pc' = "fetched" /\ exc' = exc
            ELSE soup' = soup /\ pc' = "crashed" /\ exc' = net
    /\ UNCHANGED <<url, net, soup_text, imgs, npieces, phone_numbers,
                   numbers_result, logo, logo_url, stdout>>

\* phone_numbers = str(functions.get_numbers(soup)); a str has no get_text
DriverGetNumbers ==
    /\ pc = "fetched"
    /\ IF soup = "tree"
       THEN /\ phone_numbers' = AcceptedSegments(soup_text)
            /\ numbers_result' = get_numbers(soup_text)
            /\ pc' = "numbers"
            /\ exc' = exc
       ELSE /\ pc' = "crashed"
            /\ exc' = "AttributeError"
            /\ UNCHANGED <<phone_numbers, numbers_result>>
    /\ UNCHANGED <<url, net, soup, soup_text, imgs, npieces, logo, logo_url, stdout>>

\* logo = functions.find_logo(soup)
DriverFindLogo ==
    /\ pc = "numbers"
    /\ logo' = find_logo(imgs)
    /\ pc' = "logo"
    /\ UNCHANGED <<url, net, soup, soup_text, imgs, npieces, phone_numbers,
                   numbers_result, logo_url, exc, stdout>>

\* the two writes to sys.stdout, with return_logo_url called "if logo"
DriverWrite ==
    /\ pc = "logo"
    /\ logo_url' = IF ~logo.isNone /\ logo.value # <<>>
                   THEN Some(return_logo_url(logo.value, url))
                   ELSE None
    /\ stdout' = <<[str_of |-> numbers_result],
                   IF logo_url'.isNone THEN NoneLine ELSE logo_url'.value>>
    /\ pc' = "written"
    /\ UNCHANGED <<url, net, soup, soup_text, imgs, npieces, phone_numbers,
                   numbers_result, logo, exc>>

NextDriver == MakeSoup \/ DriverGetNumbers \/ DriverFindLogo \/ DriverWrite

SpecDriver == InitDriver /\ [][NextDriver]_vars

\* C7: when the fetch fails with a network error, make_soup lets no
\* exception out and hands the empty indicator to the driver, which goes on
\* from the fetch step.
C7_FetchFailureContained ==
    (net \in UrlopenRaises /\ pc # "start") =>
        /\ soup = "empty"
        /\ exc \notin UrlopenRaises

=============================================================================
